---- MODULE Spec2Model ----
(***************************************************************************)
(* GATT server of esp-gatt-rs-demo.                                        *)
(*                                                                         *)
(* Two servers live in the repository:                                     *)
(*   - ble::gatt::BleServer (src/src/ble/gatt.rs), the event-driven server *)
(*     that demo_ble::run starts, with the WifiCtl service handler         *)
(*     (src/src/demo_ble.rs);                                              *)
(*   - bt::BleServer (src/src/bt/mod.rs), the list-of-services server with *)
(*     DataTransferService (src/src/bt/gatt/data_transfer.rs).             *)
(* Spec is the first one driven by a Bluedroid-like driver, SpecBt is the   *)
(* second one driven by its caller.                                        *)
(*                                                                         *)
(* Two route tables are drafted beside them and used by neither server:    *)
(*   - ble::gatt::RouteRegistry (src/src/ble/gatt.rs), SpecRoute;          *)
(*   - ble::demo::ServiceRegistry with KeyboardService                     *)
(*     (src/src/ble/demo.rs), SpecRegistry.                                *)
(***************************************************************************)
EXTENDS Integers, Sequences, FiniteSets, TLC

\* ------------------------------------------------------------------ bounds
\* Number of services the ready handler declares (demo_ble declares one).
NumServices == 2
\* Number of confirmations the driver may deliver a second time.
MaxDup == 1

\* Number of events the stack holds for the callback at a time.
MaxQueue == 2

\* demo_ble.rs: const APP_ID: u16 = 0
APP_ID == 0
\* an application id of some other GATT application on the same stack
OtherAppId == APP_ID + 1
\* bt/mod.rs add_service: at most 5 services
ServiceLimit == 5

Services == 1..NumServices
\* Characteristics of a service, in the order WifiCtl::add_characteristics
\* requests them: 1 = RECV_CHARACTERISTIC_UUID, 2 = IND_CHARACTERISTIC_UUID.
Chars == {1, 2}

\* ----------------------------------------------------------------- driver
\* The handle block the driver gives to a service, and the attribute handle
\* of its characteristics inside the block: distinct services and
\* characteristics never share a handle.
SvcHandle(s) == (s - 1) * 3 + 1
CharUuid(s, c) == (s - 1) * 2 + c
AttrHandle(u) == SvcHandle(((u - 1) \div 2) + 1) + ((u - 1) % 2) + 1
HandleOwner(h) == ((h - 1) \div 3) + 1
Handles == 1..(3 * NumServices)
\* a handle the driver has given to no service
UnknownHandle == 3 * NumServices + 1

\* ------------------------------------------------------------------ values
EmptyMap == [x \in {} |-> 0]
Insert(m, k, v) == [x \in (DOMAIN m) \cup {k} |-> IF x = k THEN v ELSE m[x]]

\* GattsEvent / BleGapEvent, all variants in one record shape
Ev(t) == [type |-> t, status |-> "Ok", app_id |-> 0, sid |-> 0, h |-> 0, a |-> 0,
          uuid |-> 0, conn |-> 0, trans |-> 0, offset |-> 0, need_rsp |-> FALSE]
\* a command to the driver (EspGatts / EspBleGap call)
Cmd(t, sid, h, uuid) == [cmd |-> t, sid |-> sid, h |-> h, uuid |-> uuid]
\* a callback invocation
Call(cb, sid, e) == [cb |-> cb, sid |-> sid, h |-> e.h, conn |-> e.conn,
                     trans |-> e.trans, offset |-> e.offset, need_rsp |-> e.need_rsp,
                     held |-> {}]
\* a callback invoked while the caller holds the mutexes `held`
CallHolding(cb, sid, e, held) == [Call(cb, sid, e) EXCEPT !.held = held]

\* the value handle_gatts_event computes: new state, commands issued, callbacks
\* invoked, and the Result it returns ("Panic" when it unwinds)
R(st, out, calls, res) == [st |-> st, out |-> out, calls |-> calls, res |-> res]

\* ------------------------------------------------- ble::gatt (gatt.rs)
\* check_gatt_status with the status test lost
check_gatt_status_lenient(status) == "Ok"

check_gatt_status(status) == IF status = "Ok" THEN "Ok" ELSE "Err"

check_bt_status(status) == IF status = "Ok" THEN "Ok" ELSE "Err"

\* The first `fail - 1` of the driver calls `cmds` are accepted and the call
\* number `fail` returns an error, which `?` propagates; fail = 0: all accepted.
Accepted(cmds, fail) == IF fail = 0 \/ fail > Len(cmds) THEN cmds ELSE SubSeq(cmds, 1, fail - 1)
Outcome(cmds, fail) == IF fail = 0 \/ fail > Len(cmds) THEN "Ok" ELSE "Err"

\* ServerState of BleServer::new
NewState == [ready_handler |-> "None", instances |-> <<>>, handlers |-> EmptyMap,
             attr_handler |-> EmptyMap]

\* find with the identifier comparison lost: the first instance, whatever the
\* event's service id
FindInstance_first(instances, sid) == IF instances = <<>> THEN 0 ELSE instances[1]

\* instances.iter().find(|v| v.service_id().id == service_id.id): the first
\* instance with that service id, 0 when there is none
FindInstance(instances, sid) ==
    LET hits == {i \in 1..Len(instances) : instances[i] = sid}
    IN IF hits = {} THEN 0
       ELSE instances[CHOOSE i \in hits : \A j \in hits : i <= j]

\* add_characteristics on the handle of the first service, whatever handle the
\* confirmation carried
add_characteristics_first(sid, h, fail) ==
    LET cmds == <<Cmd("add_characteristic", sid, SvcHandle(1), CharUuid(sid, 1)),
                  Cmd("add_characteristic", sid, SvcHandle(1), CharUuid(sid, 2))>>
    IN [out |-> Accepted(cmds, fail), res |-> Outcome(cmds, fail)]

\* WifiCtl::add_characteristics: the RECV then the IND characteristic
add_characteristics(sid, h, fail) ==
    LET cmds == <<Cmd("add_characteristic", sid, h, CharUuid(sid, 1)),
                  Cmd("add_characteristic", sid, h, CharUuid(sid, 2))>>
    IN [out |-> Accepted(cmds, fail), res |-> Outcome(cmds, fail)]

\* WifiCtl::on_created: start_service(handle).expect(..), then
\* add_characteristics. fail counts the driver calls from start_service (1).
on_created(sid, h, fail) ==
    IF fail = 1 THEN [out |-> <<>>, res |-> "Panic"]
    ELSE LET r == add_characteristics(sid, h, IF fail = 0 THEN 0 ELSE fail - 1)
         IN [out |-> <<Cmd("start_service", sid, h, 0)>> \o r.out, res |-> r.res]

\* a ready handler that walks its services from the last to the first
ReadyHandler_reversed(fail) ==
    LET cmds == <<Cmd("set_device_name", 0, 0, 0), Cmd("set_adv_conf", 0, 0, 0)>>
                \o [i \in 1..NumServices |-> Cmd("create_service", NumServices + 1 - i, 0, 0)]
    IN [out |-> Accepted(cmds, fail), res |-> Outcome(cmds, fail),
        services |-> [i \in 1..NumServices |-> i]]

\* The ready handler demo_ble::run installs: device name, advertising
\* configuration, then create_service for every declared service, in
\* declaration order; returns the list of service handlers.
ReadyHandler(fail) ==
    LET cmds == <<Cmd("set_device_name", 0, 0, 0), Cmd("set_adv_conf", 0, 0, 0)>>
                \o [i \in 1..NumServices |-> Cmd("create_service", i, 0, 0)]
    IN [out |-> Accepted(cmds, fail), res |-> Outcome(cmds, fail),
        services |-> [i \in 1..NumServices |-> i]]

\* a ServiceDeleted arm that takes the service's entry out of the handler map
\* and expects it to be there
on_service_deleted_expect(st, ev) ==
    IF check_gatt_status(ev.status) = "Err" THEN R(st, <<>>, <<>>, "Err")
    ELSE IF ev.h \in DOMAIN st.handlers
         THEN R([st EXCEPT !.handlers = [x \in (DOMAIN @) \ {ev.h} |-> @[x]]], <<>>, <<>>, "Ok")
         ELSE R(st, <<>>, <<>>, "Panic")

\* handle_gatts_event, the ServiceDeleted arm: the status is checked, the
\* removal of the service is commented out
on_service_deleted(st, ev) == R(st, <<>>, <<>>, check_gatt_status(ev.status))

\* a ServiceCreated arm that binds the handle before it calls on_created
on_service_created_eager(st, ev, fail) ==
    IF check_gatt_status(ev.status) = "Err" THEN R(st, <<>>, <<>>, "Err")
    ELSE LET inst == FindInstance(st.instances, ev.sid)
         IN IF inst # 0
            THEN LET r == on_created(inst, ev.h, fail)
                 IN R([st EXCEPT !.handlers = Insert(@, ev.h, inst)],
                      r.out, <<Call("on_created", inst, ev)>>, r.res)
            ELSE R(st, <<>>, <<>>, "Ok")

\* a ServiceCreated arm that returns an error when no instance has the
\* event's service id
on_service_created_strict(st, ev, fail) ==
    IF check_gatt_status(ev.status) = "Err" THEN R(st, <<>>, <<>>, "Err")
    ELSE LET inst == FindInstance(st.instances, ev.sid)
         IN IF inst # 0
            THEN LET r == on_created(inst, ev.h, fail)
                 IN IF r.res = "Ok"
                    THEN R([st EXCEPT !.handlers = Insert(@, ev.h, inst)],
                           r.out, <<Call("on_created", inst, ev)>>, "Ok")
                    ELSE R(st, r.out, <<Call("on_created", inst, ev)>>, r.res)
            ELSE R(st, <<>>, <<>>, "Err")

\* handle_gatts_event, the ServiceCreated arm: the status is checked, the
\* instance with the event's service id is looked up, its on_created is called
\* and, when that returned Ok, the handle is bound to the instance; an event
\* for which no instance is found is logged and answered Ok
on_service_created(st, ev, fail) ==
    IF check_gatt_status(ev.status) = "Err" THEN R(st, <<>>, <<>>, "Err")
    ELSE LET inst == FindInstance(st.instances, ev.sid)
         IN IF inst # 0
            THEN LET r == on_created(inst, ev.h, fail)
                 IN IF r.res = "Ok"
                    THEN R([st EXCEPT !.handlers = Insert(@, ev.h, inst)],
                           r.out, <<Call("on_created", inst, ev)>>, "Ok")
                    ELSE R(st, r.out, <<Call("on_created", inst, ev)>>, r.res)
            ELSE R(st, <<>>, <<>>, "Ok")

\* the application id comparison lost: every registration counts as the own
is_own_app_any(app_id) == TRUE

\* self.app_id == app_id, the server being built with APP_ID
is_own_app(app_id) == APP_ID = app_id

\* the ready handler read and left in its Option (as_ref() for take())
take_kept(st) == st

\* guard.take(): the ready handler leaves its Option
take(st) == [st EXCEPT !.ready_handler = "None"]

\* BleServer::handle_gatts_event. The ready handler runs inside the scope of
\* `guard`, the lock of the ready_handler mutex; on_created runs after the
\* temporary lock of `state` that found the instance is dropped.
handle_gatts_event(st, ev, fail) ==
    CASE ev.type = "ServiceRegistered" ->
           IF check_gatt_status(ev.status) = "Err" THEN R(st, <<>>, <<>>, "Err")
           ELSE IF ~is_own_app(ev.app_id) THEN R(st, <<>>, <<>>, "Ok")
           ELSE IF st.ready_handler = "None" THEN R(st, <<>>, <<>>, "Ok")
           ELSE LET r == ReadyHandler(fail)
                    taken == take(st)
                    call == CallHolding("ready_handler", 0, ev, {"ready_handler"})
                IN IF r.res = "Err"
                   THEN R(taken, r.out, <<call>>, "Err")
                   ELSE R([taken EXCEPT !.instances = r.services], r.out, <<call>>, "Ok")
      [] ev.type = "ServiceCreated" -> on_service_created(st, ev, fail)
      [] ev.type \in {"CharacteristicAdded", "DescriptorAdded",
                      "ServiceUnregistered", "Confirm"} ->
           R(st, <<>>, <<>>, check_gatt_status(ev.status))
      [] ev.type = "ServiceDeleted" -> on_service_deleted(st, ev)
      [] ev.type \in {"Mtu", "PeerConnected", "Write"} ->
           R(st, <<>>, <<>>, "Ok")
      [] ev.type = "PeerDisconnected" ->
           LET cmds == <<Cmd("start_advertising", 0, 0, 0)>>
           IN R(st, Accepted(cmds, fail), <<>>, Outcome(cmds, fail))
      [] OTHER -> R(st, <<>>, <<>>, "Ok")

\* BleServer::handle_gap_event
handle_gap_event(st, ev, fail) ==
    IF ev.type = "AdvertisingConfigured"
    THEN IF check_bt_status(ev.status) = "Err" THEN R(st, <<>>, <<>>, "Err")
         ELSE LET cmds == <<Cmd("start_advertising", 0, 0, 0)>>
              IN R(st, Accepted(cmds, fail), <<>>, Outcome(cmds, fail))
    ELSE R(st, <<>>, <<>>, "Ok")

\* ------------------------------------------------------ bt (bt/mod.rs)
\* The handles the driver returns to the service at position i of the list
\* (create_service and add_characteristic return them synchronously here).
BtSvcHandle(i) == (i - 1) * 3 + 1

\* DataTransferService::new
NewService(id) == [id |-> id, service_handle |-> 0, recv_handle |-> 0, ind_handle |-> 0,
                   registered |-> FALSE]

\* DataTransferService::on_register at list position i: create_service,
\* add_characteristic (recv), add_characteristic (ind), start_service; the
\* driver call number `fail` returns an error (0: none)
on_register(svc, i, fail) ==
    LET h == BtSvcHandle(i)
        cmds == <<Cmd("create_service", svc.id, 0, 0),
                  Cmd("add_characteristic", svc.id, h, 1),
                  Cmd("add_characteristic", svc.id, h, 2),
                  Cmd("start_service", svc.id, h, 0)>>
        done == Len(Accepted(cmds, fail))
    IN [svc |-> [svc EXCEPT !.service_handle = IF done >= 1 THEN h ELSE 0,
                            !.recv_handle = IF done >= 2 THEN h + 1 ELSE 0,
                            !.ind_handle = IF done >= 3 THEN h + 2 ELSE 0,
                            !.registered = (done = 4)],
        out |-> Accepted(cmds, fail), res |-> Outcome(cmds, fail)]

\* add_service with the limit tested by > for >=
add_service_one_more(services, id) ==
    IF Len(services) > ServiceLimit
    THEN [services |-> services, res |-> "ServiceLimit"]
    ELSE [services |-> Append(services, NewService(id)), res |-> "Ok"]

\* BleServer::add_service
add_service(services, id) ==
    IF Len(services) >= ServiceLimit
    THEN [services |-> services, res |-> "ServiceLimit"]
    ELSE [services |-> Append(services, NewService(id)), res |-> "Ok"]

\* BleServer::configure_advertising then BleServer::start_advertising
bt_advertise(fail) ==
    LET cmds == <<Cmd("set_device_name", 0, 0, 0), Cmd("set_adv_conf", 0, 0, 0),
                  Cmd("start_advertising", 0, 0, 0)>>
    IN [out |-> Accepted(cmds, fail), res |-> Outcome(cmds, fail)]

\* BleServer::start: register_service for every service in list order, each
\* `?`-propagating its error, then advertising. failAt is the position of the
\* service whose on_register meets a failing driver call, fail that call's
\* number (failAt = Len + 1: the advertising calls; fail = 0: nothing fails).
RECURSIVE bt_register_all(_, _, _, _)
bt_register_all(services, i, failAt, fail) ==
    IF i > Len(services) THEN [services |-> services, out |-> <<>>, res |-> "Ok"]
    ELSE LET r == on_register(services[i], i, IF i = failAt THEN fail ELSE 0)
             upd == [services EXCEPT ![i] = r.svc]
         IN IF r.res = "Err"
            THEN [services |-> upd, out |-> r.out, res |-> "Err"]
            ELSE LET rest == bt_register_all(upd, i + 1, failAt, fail)
                 IN [services |-> rest.services, out |-> r.out \o rest.out, res |-> rest.res]

\* start with the advertising configured and started before the services are
\* registered
bt_start_advertise_first(services, failAt, fail) ==
    LET a == bt_advertise(IF failAt = Len(services) + 1 THEN fail ELSE 0)
    IN IF a.res = "Err" THEN [services |-> services, out |-> a.out, res |-> "Err"]
       ELSE LET r == bt_register_all(services, 1, failAt, fail)
            IN [services |-> r.services, out |-> a.out \o r.out, res |-> r.res]

bt_start(services, failAt, fail) ==
    LET r == bt_register_all(services, 1, failAt, fail)
    IN IF r.res = "Err" THEN r
       ELSE LET a == bt_advertise(IF failAt = Len(services) + 1 THEN fail ELSE 0)
            IN [services |-> r.services, out |-> r.out \o a.out, res |-> a.res]

\* on_gatts_event with the callbacks' errors propagated by `?`
bt_on_gatts_event_propagate(services, ev, err) ==
    LET all(cb) == [i \in 1..Len(services) |-> Call(cb, i, ev)]
        cut(cb) == IF err \in 1..Len(services)
                   THEN [calls |-> SubSeq(all(cb), 1, err), logged |-> <<>>, res |-> "Err"]
                   ELSE [calls |-> all(cb), logged |-> <<>>, res |-> "Ok"]
    IN CASE ev.type = "Write" -> cut("on_write")
         [] ev.type = "PeerConnected" -> cut("on_connect")
         [] ev.type = "PeerDisconnected" -> cut("on_disconnect")
         [] ev.type = "Mtu" -> [calls |-> all("notify_event"), logged |-> <<>>, res |-> "Ok"]
         [] OTHER -> [calls |-> <<>>, logged |-> <<>>, res |-> "Ok"]

\* BleServer::on_gatts_event: the callbacks it invokes, in order, the errors it
\* logs (by position of the service) and its result. `err` is the position of
\* the service whose on_write / on_connect / on_disconnect returns an error
\* (0: none does): the error is logged and the loop goes on. notify_event
\* returns no Result.
bt_on_gatts_event(services, ev, err) ==
    LET all(cb) == [i \in 1..Len(services) |-> Call(cb, i, ev)]
        loop(cb) == [calls |-> all(cb),
                     logged |-> IF err \in 1..Len(services) THEN <<err>> ELSE <<>>,
                     res |-> "Ok"]
    IN CASE ev.type = "Write" -> loop("on_write")
         [] ev.type = "PeerConnected" -> loop("on_connect")
         [] ev.type = "PeerDisconnected" -> loop("on_disconnect")
         [] ev.type = "Mtu" -> [calls |-> all("notify_event"), logged |-> <<>>, res |-> "Ok"]
         [] OTHER -> [calls |-> <<>>, logged |-> <<>>, res |-> "Ok"]

\* BleServer::on_gap_event
bt_on_gap_event(ev, fail) ==
    IF ev.type = "AdvertisingConfigured" /\ ev.status = "Ok"
    THEN LET cmds == <<Cmd("start_advertising", 0, 0, 0)>>
         IN [out |-> Accepted(cmds, fail), res |-> Outcome(cmds, fail)]
    ELSE [out |-> <<>>, res |-> "Ok"]

\* ------------------------------------- ble::gatt::RouteRegistry (gatt.rs)
\* .iter().find(..): the first of the positions `hits` that satisfy the
\* closure, 0 (None) when there is none
FirstOf(hits) == IF hits = {} THEN 0 ELSE CHOOSE i \in hits : \A j \in hits : i <= j

\* ServiceRoute as register_service pushes it: no service handle yet (0 = None)
NewRoute(id, char_uuids) == [id |-> id, char_uuids |-> char_uuids, service_handle |-> 0]

\* RouteRegistry::register_service
register_service(services, id, char_uuids) ==
    IF FirstOf({k \in 1..Len(services) : services[k].id = id}) # 0
    THEN [services |-> services, res |-> "Err"]
    ELSE [services |-> Append(services, NewRoute(id, char_uuids)), res |-> "Ok"]

\* RouteRegistry::update_service_handle (service_handle: Option<Handle>, 0 = None)
update_service_handle(services, id, service_handle) ==
    LET i == FirstOf({k \in 1..Len(services) : services[k].id = id})
    IN IF i # 0
       THEN [services |-> [services EXCEPT ![i].service_handle = service_handle], res |-> "Ok"]
       ELSE [services |-> services, res |-> "Err"]

\* RouteRegistry::update_character_route
update_character_route(char_handles, char_uuid, service_handle, attr_handle) ==
    LET i == FirstOf({k \in 1..Len(char_handles) : char_handles[k].char_uuid = char_uuid})
    IN IF i # 0
       THEN [char_handles |-> [char_handles EXCEPT ![i].attr_handle = attr_handle,
                                                   ![i].service_handle = service_handle],
             res |-> "Ok"]
       ELSE [char_handles |-> char_handles, res |-> "Err"]

\* RouteRegistry::find_attr_handler: the identifier of the service handler the
\* attribute handle routes to, 0 = None
find_attr_handler(services, char_handles, service_handle, attr_handle) ==
    IF FirstOf({k \in 1..Len(char_handles) :
                    /\ char_handles[k].service_handle = service_handle
                    /\ char_handles[k].attr_handle = attr_handle}) # 0
    THEN LET i == FirstOf({k \in 1..Len(services) : services[k].service_handle = service_handle})
         IN IF i # 0 THEN services[i].id ELSE 0
    ELSE 0

\* ------------------------------------- ble::demo::ServiceRegistry (demo.rs)
\* a BleService before create(): handles: None (0)
NewBleService == [service_handle |-> 0, char_handle |-> 0]

\* ServiceRegistry::register: HashMap::insert under the service's identifier
sr_register(services, id) == Insert(services, id, NewBleService)

\* KeyboardService::create: create_service, add_characteristic, start_service,
\* each propagating its error; the handles are stored once the characteristic
\* is added. The driver call number `fail` returns an error (0: none).
sr_create(id, fail) ==
    LET h == SvcHandle(id)
        cmds == <<Cmd("create_service", id, 0, 0), Cmd("add_characteristic", id, h, 0),
                  Cmd("start_service", id, h, 0)>>
        done == Len(Accepted(cmds, fail))
    IN [svc |-> IF done >= 2 THEN [service_handle |-> h, char_handle |-> h + 1]
                ELSE NewBleService,
        out |-> Accepted(cmds, fail), res |-> Outcome(cmds, fail)]

\* ServiceRegistry::create_all_services: the services in the order `order`
\* (the HashMap's iteration order), the first error propagated; the driver call
\* number `fail` of the service at position failAt returns an error.
RECURSIVE sr_create_all(_, _, _, _, _, _)
sr_create_all(services, handles_map, order, i, failAt, fail) ==
    IF i > Len(order)
    THEN [services |-> services, handles_map |-> handles_map, out |-> <<>>, res |-> "Ok"]
    ELSE LET id == order[i]
             r == sr_create(id, IF i = failAt THEN fail ELSE 0)
             upd == [services EXCEPT ![id] = r.svc]
         IN IF r.res = "Err"
            THEN [services |-> upd, handles_map |-> handles_map, out |-> r.out, res |-> "Err"]
            ELSE LET rest == sr_create_all(upd, Insert(handles_map, r.svc.char_handle, id),
                                           order, i + 1, failAt, fail)
                 IN [rest EXCEPT !.out = r.out \o @]

\* KeyboardService::delete: delete_service(handle).ok()
sr_delete(svc, id, fail) ==
    IF svc.service_handle = 0 THEN [out |-> <<>>, res |-> "Ok"]
    ELSE [out |-> Accepted(<<Cmd("delete_service", id, svc.service_handle, 0)>>, fail),
          res |-> "Ok"]

\* KeyboardService::handle_event: a write that needs a response is answered,
\* send_response(..).expect(..)
sr_handle_event(id, ev, fail) ==
    IF ev.type = "Write" /\ ev.need_rsp
    THEN IF fail = 1 THEN [out |-> <<>>, res |-> "Panic"]
         ELSE [out |-> <<Cmd("send_response", id, ev.h, 0)>>, res |-> "Ok"]
    ELSE [out |-> <<>>, res |-> "Ok"]

\* ServiceRegistry::route_event
route_event(services, handles_map, ev, fail) ==
    IF /\ ev.type \in {"Write", "Read"}
       /\ ev.h \in DOMAIN handles_map
       /\ handles_map[ev.h] \in DOMAIN services
    THEN LET id == handles_map[ev.h]
             r == sr_handle_event(id, ev, fail)
         IN [out |-> r.out, calls |-> <<Call("handle_event", id, ev)>>, res |-> r.res]
    ELSE [out |-> <<>>, calls |-> <<>>, res |-> "Ok"]

\* ------------------------------------------------------------------ state
VARIABLES
    \* ble::gatt::BleServer
    ready_handler,   \* Option<ReadyHandler>: "None" or "Some"
    instances,       \* ServerState.instances: the service handlers, by service id
    handlers,        \* ServerState.handlers: service handle -> service handler
    attr_handler,    \* ServerState.attr_handler: service handle -> attribute handles
    gap_subscribed,  \* the GAP callback is installed
    gatts_subscribed,\* the GATTS callback is installed
    started,         \* start() has been called
    alive,           \* the process has not aborted on a panic
    \* the driver
    pending,         \* accepted commands awaiting their confirmation: one queue per
                     \* service, queue 0 for the application's own commands
    delivered,       \* confirmation events delivered so far
    dups,            \* confirmations delivered a second time
    \* observation of the run
    last,            \* the last event handled, what its handling issued, invoked and returned
    issued,          \* every command the driver accepted so far
    ncreated,        \* per service: number of on_created invocations
    nready,          \* number of ready handler invocations
    iso,             \* per service: the ServerState that service's own confirmations alone produce
    isoCreated,      \* per service: on_created invocations in that isolated run
    \* bt::BleServer
    bt_services,     \* BleServer.services, each with its DataTransferState
    bt_started,      \* start() has been called
    bt_last,         \* the last call: its event, commands, callbacks and result
    bt_queue,        \* GATTS events the stack has raised and not yet handed to on_gatts_event
    \* ble::gatt::RouteRegistry
    rr_services,     \* RouteRegistry.services: Vec<ServiceRoute>
    rr_char_handles, \* RouteRegistry.char_handles: Vec<CharHandle>
    rr_last,         \* the last call: its arguments, its result, the services before it
    \* ble::demo::ServiceRegistry
    sr_services,     \* ServiceRegistry.services: service id -> service
    sr_handles_map,  \* ServiceRegistry.handles_map: attribute handle -> service id
    sr_created,      \* create_all_services has been called
    sr_deleted,      \* the services whose delete_service the driver has accepted
    sr_last          \* the last call: its event, commands, callbacks and result

btVars == <<bt_services, bt_started, bt_last>>

rrVars == <<rr_services, rr_char_handles, rr_last>>

srVars == <<sr_services, sr_handles_map, sr_created, sr_deleted, sr_last>>

\* what ble::gatt::BleServer and bt::BleServer do not touch
draftVars == <<rrVars, srVars, bt_queue>>

gattVars == <<ready_handler, instances, handlers, attr_handler, gap_subscribed,
              gatts_subscribed, started, alive, pending, delivered, dups, last,
              issued, ncreated, nready, iso, isoCreated>>

State == [ready_handler |-> ready_handler, instances |-> instances,
          handlers |-> handlers, attr_handler |-> attr_handler]

Range(q) == {q[i] : i \in 1..Len(q)}

NoLast == [ev |-> Ev("None"), out |-> <<>>, calls |-> <<>>, res |-> "Ok", changed |-> FALSE]

\* the driver queue a command waits in for its confirmation
QueueOf(c) == IF c.cmd \in {"create_service", "add_characteristic", "start_service"}
              THEN c.sid ELSE 0
Confirmed == {"register_app", "create_service", "add_characteristic", "start_service",
              "set_adv_conf"}
RECURSIVE Enqueue(_, _)
Enqueue(q, out) ==
    IF out = <<>> THEN q
    ELSE LET c == Head(out)
         IN Enqueue(IF c.cmd \in Confirmed
                    THEN [q EXCEPT ![QueueOf(c)] = Append(@, c)] ELSE q,
                    Tail(out))

\* the confirmation event the driver emits for an accepted command
ConfirmEvent(c, status) ==
    CASE c.cmd = "register_app" ->
           [Ev("ServiceRegistered") EXCEPT !.status = status, !.app_id = APP_ID]
      [] c.cmd = "create_service" ->
           [Ev("ServiceCreated") EXCEPT !.status = status, !.sid = c.sid,
                !.h = IF status = "Ok" THEN SvcHandle(c.sid) ELSE 0]
      [] c.cmd = "add_characteristic" ->
           [Ev("CharacteristicAdded") EXCEPT !.status = status, !.h = c.h, !.uuid = c.uuid,
                !.a = IF status = "Ok" THEN AttrHandle(c.uuid) ELSE 0]
      [] c.cmd = "start_service" ->
           [Ev("ServiceStarted") EXCEPT !.status = status, !.h = c.h]
      [] OTHER -> [Ev("AdvertisingConfigured") EXCEPT !.status = status]

\* the service a confirmation event is about, as the driver knows it
\* (application-level and peer events concern every service)
Belongs(ev, s) ==
    CASE ev.type = "ServiceCreated" -> ev.sid = s
      [] ev.type \in {"CharacteristicAdded", "ServiceStarted"} -> HandleOwner(ev.h) = s
      [] OTHER -> TRUE

CountCalls(calls, cb, s) == Cardinality({i \in 1..Len(calls) : calls[i].cb = cb /\ calls[i].sid = s})

\* events that arrive without a command of this server asking for them
PeerEvents ==
    {[Ev(t) EXCEPT !.h = h, !.conn = 1, !.trans = 1, !.need_rsp = TRUE] :
        t \in {"Write", "Read"}, h \in Handles \cup {UnknownHandle}}
    \cup {[Ev(t) EXCEPT !.conn = 1] : t \in {"PeerConnected", "PeerDisconnected", "Mtu"}}
    \cup {[Ev(t) EXCEPT !.status = st] : t \in {"Confirm"}, st \in {"Ok", "Err"}}
    \cup {[Ev(t) EXCEPT !.status = st, !.h = SvcHandle(s)] :
            t \in {"ServiceDeleted", "ServiceUnregistered"}, st \in {"Ok", "Err"}, s \in Services}
    \cup {[Ev("ServiceRegistered") EXCEPT !.status = st, !.app_id = OtherAppId] : st \in {"Ok", "Err"}}

\* The driver calls the handling of an event makes, any of which may be the one
\* that returns an error (0: none does): the ready handler's on a successful
\* registration, on_created's three on a successful creation, start_advertising
\* on a disconnect.
FailChoices(ev) ==
    CASE ev.type = "ServiceRegistered" /\ ev.status = "Ok" /\ ev.app_id = APP_ID -> 0..(2 + NumServices)
      [] ev.type = "ServiceCreated" /\ ev.status = "Ok" -> 0..3
      [] ev.type \in {"PeerDisconnected", "AdvertisingConfigured"} -> 0..1
      [] OTHER -> {0}

\* What the driver has confirmed so far.
RegOk == \E e \in delivered : e.type = "ServiceRegistered" /\ e.status = "Ok" /\ e.app_id = APP_ID
CreatedOk(s) == \E e \in delivered : e.type = "ServiceCreated" /\ e.status = "Ok" /\ e.sid = s
CreatedFailed(s) == \E e \in delivered : e.type = "ServiceCreated" /\ e.status # "Ok" /\ e.sid = s
CharOk(s, c) == \E e \in delivered : /\ e.type = "CharacteristicAdded" /\ e.status = "Ok"
                                     /\ e.h = SvcHandle(s) /\ e.uuid = CharUuid(s, c)
StartedOk(s) == \E e \in delivered : e.type = "ServiceStarted" /\ e.status = "Ok" /\ e.h = SvcHandle(s)
\* some confirmation about service s carried a non-success status
Failed(s) == \E e \in delivered : /\ e.type \in {"ServiceCreated", "CharacteristicAdded", "ServiceStarted"}
                                  /\ e.status # "Ok" /\ Belongs(e, s)
\* Live: registration, creation, every characteristic and the start confirmed
Live(s) == RegOk /\ CreatedOk(s) /\ StartedOk(s) /\ \A c \in Chars : CharOk(s, c)

GattInit ==
    /\ ready_handler = "None"
    /\ instances = <<>>
    /\ handlers = EmptyMap
    /\ attr_handler = EmptyMap
    /\ gap_subscribed = FALSE
    /\ gatts_subscribed = FALSE
    /\ started = FALSE
    /\ alive = TRUE
    /\ pending = [q \in 0..NumServices |-> <<>>]
    /\ delivered = {}
    /\ dups = 0
    /\ last = NoLast
    /\ issued = {}
    /\ ncreated = [s \in Services |-> 0]
    /\ nready = 0
    /\ iso = [s \in Services |-> NewState]
    /\ isoCreated = [s \in Services |-> 0]

\* BleServer::set_ready_handler, which demo_ble::run calls before start()
set_ready_handler ==
    /\ UNCHANGED <<btVars, draftVars>>
    /\ alive /\ ~started
    /\ ready_handler' = "Some"
    /\ iso' = [s \in Services |-> [iso[s] EXCEPT !.ready_handler = "Some"]]
    /\ UNCHANGED <<instances, handlers, attr_handler, gap_subscribed, gatts_subscribed,
                   started, alive, pending, delivered, dups, last, issued, ncreated,
                   nready, isoCreated>>

\* start with the application registered before the callbacks are subscribed:
\* gatts.register_app, gap.subscribe, gatts.subscribe
start_register_first ==
    /\ UNCHANGED <<btVars, draftVars>>
    /\ alive /\ ~started
    /\ \E fail \in 0..3 :
        LET out == IF fail # 1 THEN <<Cmd("register_app", 0, 0, 0)>> ELSE <<>>
        IN /\ started' = TRUE
           /\ gap_subscribed' = (fail = 0 \/ fail > 2)
           /\ gatts_subscribed' = (fail = 0)
           /\ pending' = Enqueue(pending, out)
           /\ issued' = issued \cup Range(out)
           /\ last' = [NoLast EXCEPT !.ev = Ev("start"), !.out = out,
                                     !.res = IF fail = 0 THEN "Ok" ELSE "Err"]
    /\ UNCHANGED <<ready_handler, instances, handlers, attr_handler, alive, delivered,
                   dups, ncreated, nready, iso, isoCreated>>

\* BleServer::start: gap.subscribe, gatts.subscribe, gatts.register_app, each
\* propagating its error
start ==
    /\ UNCHANGED <<btVars, draftVars>>
    /\ alive /\ ~started
    /\ \E fail \in 0..3 :
        LET out == IF fail = 0 THEN <<Cmd("register_app", 0, 0, 0)>> ELSE <<>>
        IN /\ started' = TRUE
           /\ gap_subscribed' = (fail = 0 \/ fail > 1)
           /\ gatts_subscribed' = (fail = 0 \/ fail > 2)
           /\ pending' = Enqueue(pending, out)
           /\ issued' = issued \cup Range(out)
           /\ last' = [NoLast EXCEPT !.ev = Ev("start"), !.out = out,
                                     !.res = IF fail = 0 THEN "Ok" ELSE "Err"]
    /\ UNCHANGED <<ready_handler, instances, handlers, attr_handler, alive, delivered,
                   dups, ncreated, nready, iso, isoCreated>>

\* The GATTS callback start() subscribed: handle_gatts_event on one event, its
\* error logged by check_result. `rest` are the driver queues once the event is out.
OnGattsEvent(ev, fail, rest) ==
    LET r == handle_gatts_event(State, ev, fail)
    IN /\ ready_handler' = r.st.ready_handler
       /\ instances' = r.st.instances
       /\ handlers' = r.st.handlers
       /\ attr_handler' = r.st.attr_handler
       /\ alive' = (r.res # "Panic")
       /\ pending' = Enqueue(rest, r.out)
       /\ last' = [ev |-> ev, out |-> r.out, calls |-> r.calls, res |-> r.res,
                   changed |-> (r.st # State)]
       /\ issued' = issued \cup Range(r.out)
       /\ ncreated' = [s \in Services |-> ncreated[s] + CountCalls(r.calls, "on_created", s)]
       /\ nready' = nready + CountCalls(r.calls, "ready_handler", 0)
       /\ iso' = [s \in Services |->
                    IF Belongs(ev, s) THEN handle_gatts_event(iso[s], ev, fail).st ELSE iso[s]]
       /\ isoCreated' = [s \in Services |->
                    IF Belongs(ev, s)
                    THEN isoCreated[s]
                         + CountCalls(handle_gatts_event(iso[s], ev, fail).calls, "on_created", s)
                    ELSE isoCreated[s]]
       /\ UNCHANGED <<gap_subscribed, gatts_subscribed, started>>

\* the driver confirms the oldest unconfirmed GATTS command of one queue, with
\* success or failure
DriverConfirm ==
    /\ UNCHANGED <<btVars, draftVars>>
    /\ alive /\ gatts_subscribed
    /\ \E q \in 0..NumServices, status \in {"Ok", "Err"} :
        /\ pending[q] # <<>>
        /\ Head(pending[q]).cmd # "set_adv_conf"
        /\ \E fail \in FailChoices(ConfirmEvent(Head(pending[q]), status)) :
             OnGattsEvent(ConfirmEvent(Head(pending[q]), status), fail,
                        [pending EXCEPT ![q] = Tail(@)])
        /\ delivered' = delivered \cup {ConfirmEvent(Head(pending[q]), status)}
        /\ UNCHANGED dups

\* the driver delivers a service-created confirmation it has already delivered
\* once more
DriverDuplicate ==
    /\ UNCHANGED <<btVars, draftVars>>
    /\ alive /\ gatts_subscribed /\ dups < MaxDup
    /\ \E ev \in delivered :
        /\ ev.type = "ServiceCreated"
        /\ \E fail \in FailChoices(ev) : OnGattsEvent(ev, fail, pending)
        /\ dups' = dups + 1
        /\ UNCHANGED delivered

\* Once every command of the registration is confirmed, the driver confirms
\* the deletion of a Live service, with success or failure; after it has
\* confirmed the deletion with success, a further confirmation for the same
\* handle is a repeated one.
DriverDeleted ==
    /\ UNCHANGED <<btVars, draftVars>>
    /\ alive /\ gatts_subscribed
    /\ \E s \in Services, status \in {"Ok", "Err"} :
        LET ev == [Ev("ServiceDeleted") EXCEPT !.status = status, !.h = SvcHandle(s)]
            again == \E e \in delivered : e.type = "ServiceDeleted" /\ e.status = "Ok" /\ e.h = ev.h
        IN /\ Live(s) /\ \A q \in Services : pending[q] = <<>>
           /\ again => dups < MaxDup
           /\ OnGattsEvent(ev, 0, pending)
           /\ delivered' = delivered \cup {ev}
           /\ dups' = IF again THEN dups + 1 ELSE dups

\* The stack raises an application-registered event that no register_app of
\* this server is waiting for: the registration of another application, or
\* this server's own confirmation once more. It does so while no command of a
\* service awaits its confirmation.
AppRegistered ==
    /\ UNCHANGED <<btVars, draftVars>>
    /\ alive /\ gatts_subscribed
    /\ \A q \in Services : pending[q] = <<>>
    /\ \E app \in {APP_ID, OtherAppId}, status \in {"Ok", "Err"} :
        LET ev == [Ev("ServiceRegistered") EXCEPT !.status = status, !.app_id = app]
            again == app = APP_ID
        IN /\ again => (dups < MaxDup /\ \E e \in delivered : e.type = "ServiceRegistered")
           /\ \E fail \in FailChoices(ev) : OnGattsEvent(ev, fail, pending)
           /\ delivered' = IF again THEN delivered \cup {ev} ELSE delivered
           /\ dups' = IF again THEN dups + 1 ELSE dups

\* a peer (or another application on the stack) causes an event
PeerEvent ==
    /\ UNCHANGED <<btVars, draftVars>>
    /\ alive /\ gatts_subscribed
    /\ \E ev \in PeerEvents :
        /\ \E fail \in FailChoices(ev) : OnGattsEvent(ev, fail, pending)
        /\ UNCHANGED <<delivered, dups>>

\* The GAP callback start() subscribed: handle_gap_event on the advertising
\* configuration's confirmation
GapEvent ==
    /\ UNCHANGED <<btVars, draftVars>>
    /\ alive /\ gap_subscribed
    /\ \E status \in {"Ok", "Err"}, fail \in 0..1 :
        /\ fail \in FailChoices([Ev("AdvertisingConfigured") EXCEPT !.status = status])
        /\ pending[0] # <<>>
        /\ Head(pending[0]).cmd = "set_adv_conf"
        /\ LET ev == ConfirmEvent(Head(pending[0]), status)
               r == handle_gap_event(State, ev, fail)
           IN /\ pending' = [pending EXCEPT ![0] = Tail(@)]
              /\ delivered' = delivered \cup {ev}
              /\ last' = [ev |-> ev, out |-> r.out, calls |-> r.calls, res |-> r.res,
                          changed |-> FALSE]
              /\ issued' = issued \cup Range(r.out)
        /\ UNCHANGED <<ready_handler, instances, handlers, attr_handler, gap_subscribed,
                       gatts_subscribed, started, alive, dups, ncreated, nready, iso,
                       isoCreated>>

\* events a caller hands to bt::BleServer::on_gatts_event
BtEvents ==
    {[Ev(t) EXCEPT !.h = h, !.conn = 1, !.trans = 1, !.need_rsp = TRUE] :
        t \in {"Write", "Read"}, h \in {UnknownHandle} \cup Handles}
    \cup {[Ev(t) EXCEPT !.conn = 1] : t \in {"PeerConnected", "PeerDisconnected", "Mtu"}}

BtNoLast == [ev |-> Ev("None"), out |-> <<>>, calls |-> <<>>, res |-> "Ok",
             failAt |-> 0, before |-> <<>>, waiting |-> <<>>, err |-> 0, logged |-> <<>>]

BtInit ==
    /\ bt_services = <<>>
    /\ bt_started = FALSE
    /\ bt_last = BtNoLast
    /\ bt_queue = <<>>

BtAddService ==
    /\ UNCHANGED <<gattVars, draftVars>>
    /\ \E id \in Services :
        LET r == add_service(bt_services, id)
        IN /\ bt_services' = r.services
           /\ bt_last' = [BtNoLast EXCEPT !.ev = [Ev("add_service") EXCEPT !.sid = id],
                                          !.res = r.res, !.before = bt_services]
    /\ UNCHANGED bt_started

BtStart ==
    /\ UNCHANGED <<gattVars, draftVars>>
    /\ ~bt_started
    /\ \E failAt \in 0..(Len(bt_services) + 1), fail \in 0..4 :
        /\ (failAt = 0) = (fail = 0)
        /\ failAt = Len(bt_services) + 1 => fail <= 3
        /\ LET r == bt_start(bt_services, failAt, fail)
           IN /\ bt_services' = r.services
              /\ bt_last' = [BtNoLast EXCEPT !.ev = Ev("start"), !.out = r.out,
                                             !.res = r.res, !.failAt = failAt,
                                             !.before = bt_services]
    /\ bt_started' = TRUE

BtGattsEvent ==
    /\ UNCHANGED <<gattVars, draftVars>>
    /\ \E ev \in BtEvents :
        LET r == bt_on_gatts_event(bt_services, ev, 0)
        IN bt_last' = [BtNoLast EXCEPT !.ev = ev, !.calls = r.calls, !.res = r.res,
                                       !.logged = r.logged, !.before = bt_services]
    /\ UNCHANGED <<bt_services, bt_started>>

\* on_gatts_event on an event for which the callback of one service returns an
\* error: BleService::on_write, on_connect and on_disconnect return a Result
\* (those of DataTransferService always return Ok)
BtGattsEventErr ==
    /\ UNCHANGED <<gattVars, draftVars>>
    /\ \E ev \in BtEvents, err \in 1..Len(bt_services) :
        /\ ev.type \in {"Write", "PeerConnected", "PeerDisconnected"}
        /\ LET r == bt_on_gatts_event(bt_services, ev, err)
           IN bt_last' = [BtNoLast EXCEPT !.ev = ev, !.calls = r.calls, !.res = r.res,
                                          !.err = err, !.logged = r.logged,
                                          !.before = bt_services]
    /\ UNCHANGED <<bt_services, bt_started>>

BtGapEvent ==
    /\ UNCHANGED <<gattVars, draftVars>>
    /\ \E status \in {"Ok", "Err"}, fail \in 0..1 :
        LET ev == [Ev("AdvertisingConfigured") EXCEPT !.status = status]
            r == bt_on_gap_event(ev, fail)
        IN bt_last' = [BtNoLast EXCEPT !.ev = ev, !.out = r.out, !.res = r.res,
                                       !.before = bt_services]
    /\ UNCHANGED <<bt_services, bt_started>>

\* GATTS events of one peer connection, as the stack raises them
QueueEvents ==
    {[Ev("Write") EXCEPT !.h = BtSvcHandle(1) + 1, !.conn = 1, !.trans = 1, !.need_rsp = TRUE],
     [Ev("PeerConnected") EXCEPT !.conn = 1],
     [Ev("PeerDisconnected") EXCEPT !.conn = 1]}

\* the stack raises an event: it joins the events waiting for the callback
BtArrive ==
    /\ UNCHANGED <<gattVars, rrVars, srVars>>
    /\ bt_started /\ Len(bt_queue) < MaxQueue
    /\ \E ev \in QueueEvents : bt_queue' = Append(bt_queue, ev)
    /\ UNCHANGED <<bt_services, bt_started, bt_last>>

\* a dispatcher that hands a waiting disconnect over before older events
BtDispatch_disconnect_first ==
    /\ UNCHANGED <<gattVars, rrVars, srVars>>
    /\ bt_queue # <<>>
    /\ LET i == FirstOf({k \in 1..Len(bt_queue) : bt_queue[k].type = "PeerDisconnected"})
           k == IF i = 0 THEN 1 ELSE i
           ev == bt_queue[k]
       IN /\ bt_last' = [BtNoLast EXCEPT !.ev = ev,
                                         !.calls = bt_on_gatts_event(bt_services, ev, 0).calls,
                                         !.before = bt_services, !.waiting = bt_queue]
          /\ bt_queue' = SubSeq(bt_queue, 1, k - 1) \o SubSeq(bt_queue, k + 1, Len(bt_queue))
    /\ UNCHANGED <<bt_services, bt_started>>

\* The stack's callback task hands the oldest waiting event to on_gatts_event,
\* which runs every callback of the event before it returns.
BtDispatch ==
    /\ UNCHANGED <<gattVars, rrVars, srVars>>
    /\ bt_queue # <<>>
    /\ LET ev == Head(bt_queue)
       IN bt_last' = [BtNoLast EXCEPT !.ev = ev,
                                      !.calls = bt_on_gatts_event(bt_services, ev, 0).calls,
                                      !.before = bt_services, !.waiting = bt_queue]
    /\ bt_queue' = Tail(bt_queue)
    /\ UNCHANGED <<bt_services, bt_started>>

\* ---- RouteRegistry, driven by its caller
RrNoLast == [op |-> "None", id |-> 0, h |-> 0, uuid |-> 0, a |-> 0, res |-> "Ok",
             found |-> 0, before |-> <<>>, chars_before |-> <<>>]

\* the handles a caller may pass: None (0) or the handle of some service
RrHandles == {0} \cup {SvcHandle(s) : s \in Services}

RrInit ==
    /\ rr_services = <<>>
    /\ rr_char_handles = <<>>
    /\ rr_last = RrNoLast

RrRegisterService ==
    /\ UNCHANGED <<gattVars, btVars, srVars, bt_queue>>
    /\ \E id \in Services :
        LET r == register_service(rr_services, id, <<CharUuid(id, 1), CharUuid(id, 2)>>)
        IN /\ rr_services' = r.services
           /\ rr_last' = [RrNoLast EXCEPT !.op = "register_service", !.id = id, !.res = r.res,
                                          !.before = rr_services,
                                          !.chars_before = rr_char_handles]
    /\ UNCHANGED rr_char_handles

RrUpdateServiceHandle ==
    /\ UNCHANGED <<gattVars, btVars, srVars, bt_queue>>
    /\ \E id \in Services, h \in RrHandles :
        LET r == update_service_handle(rr_services, id, h)
        IN /\ rr_services' = r.services
           /\ rr_last' = [RrNoLast EXCEPT !.op = "update_service_handle", !.id = id, !.h = h,
                                          !.res = r.res, !.before = rr_services,
                                          !.chars_before = rr_char_handles]
    /\ UNCHANGED rr_char_handles

RrUpdateCharacterRoute ==
    /\ UNCHANGED <<gattVars, btVars, srVars, bt_queue>>
    /\ \E s \in Services, c \in Chars, h \in RrHandles \ {0} :
        LET u == CharUuid(s, c)
            r == update_character_route(rr_char_handles, u, h, AttrHandle(u))
        IN /\ rr_char_handles' = r.char_handles
           /\ rr_last' = [RrNoLast EXCEPT !.op = "update_character_route", !.uuid = u,
                                          !.h = h, !.a = AttrHandle(u), !.res = r.res,
                                          !.before = rr_services,
                                          !.chars_before = rr_char_handles]
    /\ UNCHANGED rr_services

RrFindAttrHandler ==
    /\ UNCHANGED <<gattVars, btVars, srVars, bt_queue>>
    /\ \E h \in RrHandles \ {0}, a \in Handles :
        rr_last' = [RrNoLast EXCEPT !.op = "find_attr_handler", !.h = h, !.a = a,
                                    !.found = find_attr_handler(rr_services, rr_char_handles, h, a),
                                    !.before = rr_services, !.chars_before = rr_char_handles]
    /\ UNCHANGED <<rr_services, rr_char_handles>>

\* ---- ServiceRegistry, driven as demo.rs main drives it
SrNoLast == [ev |-> Ev("None"), out |-> <<>>, calls |-> <<>>, res |-> "Ok",
             before |-> EmptyMap, map_before |-> EmptyMap]

\* the orders a HashMap over the keys S may be iterated in
Orders(S) == {q \in [1..Cardinality(S) -> S] : \A i, j \in DOMAIN q : q[i] = q[j] => i = j}

SrInit ==
    /\ sr_services = EmptyMap
    /\ sr_handles_map = EmptyMap
    /\ sr_created = FALSE
    /\ sr_deleted = {}
    /\ sr_last = SrNoLast

SrRegister ==
    /\ UNCHANGED <<gattVars, btVars, rrVars, bt_queue>>
    /\ sr_last.res # "Panic"
    /\ \E id \in Services :
        /\ sr_services' = sr_register(sr_services, id)
        /\ sr_last' = [SrNoLast EXCEPT !.ev = [Ev("register") EXCEPT !.sid = id],
                                       !.before = sr_services, !.map_before = sr_handles_map]
    /\ UNCHANGED <<sr_handles_map, sr_created, sr_deleted>>

SrCreateAll ==
    /\ UNCHANGED <<gattVars, btVars, rrVars, bt_queue>>
    /\ sr_last.res # "Panic"
    /\ ~sr_created
    /\ \E order \in Orders(DOMAIN sr_services), failAt \in 0..NumServices, fail \in 0..3 :
        /\ (failAt = 0) = (fail = 0)
        /\ failAt <= Len(order)
        /\ LET r == sr_create_all(sr_services, sr_handles_map, order, 1, failAt, fail)
           IN /\ sr_services' = r.services
              /\ sr_handles_map' = r.handles_map
              /\ sr_last' = [SrNoLast EXCEPT !.ev = Ev("create_all_services"), !.out = r.out,
                                             !.res = r.res, !.before = sr_services,
                                             !.map_before = sr_handles_map]
    /\ sr_created' = TRUE
    /\ UNCHANGED sr_deleted

SrDelete ==
    /\ UNCHANGED <<gattVars, btVars, rrVars, bt_queue>>
    /\ sr_last.res # "Panic"
    /\ \E id \in DOMAIN sr_services, fail \in 0..1 :
        LET r == sr_delete(sr_services[id], id, fail)
        IN /\ sr_deleted' = sr_deleted \cup {c.sid : c \in Range(r.out)}
           /\ sr_last' = [SrNoLast EXCEPT !.ev = [Ev("delete") EXCEPT !.sid = id],
                                          !.out = r.out, !.res = r.res,
                                          !.before = sr_services,
                                          !.map_before = sr_handles_map]
    /\ UNCHANGED <<sr_services, sr_handles_map, sr_created>>

SrRouteEvent ==
    /\ UNCHANGED <<gattVars, btVars, rrVars, bt_queue>>
    /\ sr_last.res # "Panic"
    /\ sr_created
    /\ \E ev \in BtEvents, fail \in 0..1 :
        LET r == route_event(sr_services, sr_handles_map, ev, fail)
        IN sr_last' = [SrNoLast EXCEPT !.ev = ev, !.out = r.out, !.calls = r.calls,
                                       !.res = r.res, !.before = sr_services,
                                       !.map_before = sr_handles_map]
    /\ UNCHANGED <<sr_services, sr_handles_map, sr_created, sr_deleted>>

vars == <<gattVars, btVars, draftVars>>

Init == GattInit /\ BtInit /\ RrInit /\ SrInit

\* registration under a driver that confirms every command once
Next ==
    \/ set_ready_handler
    \/ start
    \/ DriverConfirm
    \/ GapEvent

Spec == Init /\ [][Next]_vars

\* the same, with confirmations that may arrive twice
NextDup ==
    \/ set_ready_handler
    \/ start
    \/ DriverConfirm
    \/ DriverDuplicate

SpecDup == Init /\ [][NextDup]_vars

\* registration, then services being deleted on the stack
NextDeleted ==
    \/ set_ready_handler
    \/ start
    \/ DriverConfirm
    \/ DriverDeleted

SpecDeleted == Init /\ [][NextDeleted]_vars

\* the same, with peers connecting, writing and reading
NextPeer ==
    \/ set_ready_handler
    \/ start
    \/ DriverConfirm
    \/ PeerEvent

SpecPeer == Init /\ [][NextPeer]_vars

\* registration on a stack that other applications register with too and
\* that may confirm a registration twice
NextApp ==
    \/ set_ready_handler
    \/ start
    \/ DriverConfirm
    \/ AppRegistered

SpecApp == Init /\ [][NextApp]_vars

\* bt::BleServer driven by its caller
NextBt ==
    \/ BtAddService
    \/ BtStart
    \/ BtGattsEvent
    \/ BtGapEvent

SpecBt == Init /\ [][NextBt]_vars

\* bt::BleServer with services whose callbacks may return an error: services
\* are added, start() succeeds, then events are handed over
NextBtErr ==
    \/ (BtAddService /\ ~bt_started)
    \/ (BtStart /\ bt_last'.res = "Ok")
    \/ (BtGattsEvent /\ bt_started)
    \/ (BtGattsEventErr /\ bt_started)

SpecBtErr == Init /\ [][NextBtErr]_vars

\* bt::BleServer behind the stack's event queue: services are added, start()
\* succeeds, then events arrive and are handed over one at a time
NextBtQueue ==
    \/ (BtAddService /\ ~bt_started)
    \/ (BtStart /\ bt_last'.res = "Ok")
    \/ BtArrive
    \/ BtDispatch

SpecBtQueue == Init /\ [][NextBtQueue]_vars

\* RouteRegistry driven by its caller
NextRoute ==
    \/ RrRegisterService
    \/ RrUpdateServiceHandle
    \/ RrUpdateCharacterRoute
    \/ RrFindAttrHandler

SpecRoute == Init /\ [][NextRoute]_vars

\* ServiceRegistry driven as demo.rs main drives it
NextRegistry ==
    \/ SrRegister
    \/ SrCreateAll
    \/ SrDelete
    \/ SrRouteEvent

SpecRegistry == Init /\ [][NextRegistry]_vars

\* ================================================================ claims
\* The route table of ble::gatt::BleServer: the entries of attribute handle a,
\* and the service it resolves to (0: unresolved).
AttrEntries(a) ==
    UNION {{<<h, i>> : i \in {j \in 1..Len(attr_handler[h]) : attr_handler[h][j] = a}} :
           h \in DOMAIN attr_handler}
Resolve(a) ==
    LET hs == {h \in DOMAIN attr_handler : h \in DOMAIN handlers /\ a \in Range(attr_handler[h])}
    IN IF hs = {} THEN 0 ELSE handlers[CHOOSE h \in hs : TRUE]
HandlerEntries(m, s) == {h \in DOMAIN m : m[h] = s}
OnCreatedCalls == {i \in 1..Len(last.calls) : last.calls[i].cb = "on_created"}

\* C1 (as claimed): once a service is Live, each characteristic it declared
\* has exactly one attribute-handle entry in the route table and that handle
\* resolves to the service.
C1_LiveHasRoutes ==
    \A s \in Services : Live(s) =>
        \A c \in Chars : /\ Cardinality(AttrEntries(AttrHandle(CharUuid(s, c)))) = 1
                         /\ Resolve(AttrHandle(CharUuid(s, c))) = s

\* C2: however the confirmations of the services interleave, each service's
\* entries in the handler map, and the on_created invocations it has seen, are
\* those its own confirmations alone produce; the attribute map likewise.
C2_InterleavingIsIsolation ==
    \A s \in Services :
        /\ HandlerEntries(handlers, s) = HandlerEntries(iso[s].handlers, s)
        /\ ncreated[s] = isoCreated[s]
        /\ attr_handler = iso[s].attr_handler
        /\ instances = iso[s].instances

\* C2 witness: service 1's creation is confirmed after service 2's, against
\* declaration order, and both are bound to their own handles.
C2_Witness ==
    /\ last.ev.type = "ServiceCreated" /\ last.ev.sid = 1 /\ last.res = "Ok"
    /\ SvcHandle(2) \in DOMAIN handlers /\ handlers[SvcHandle(2)] = 2
    /\ SvcHandle(1) \in DOMAIN handlers /\ handlers[SvcHandle(1)] = 1

\* C3 (as claimed): a write or read event invokes at most one service's
\* callback.
C3_ExclusiveRouting ==
    bt_last.ev.type \in {"Write", "Read"} => Len(bt_last.calls) <= 1

\* the handles the services of bt::BleServer own
BtOwned == UNION {{bt_services[i].service_handle, bt_services[i].recv_handle,
                   bt_services[i].ind_handle} : i \in 1..Len(bt_services)} \ {0}

\* C4 (as claimed): a write whose handle no service owns invokes no callback
\* and issues no command.
C4_UnknownHandleDropped ==
    (bt_last.ev.type \in {"Write", "Read"} /\ bt_last.ev.h \notin BtOwned)
        => (bt_last.calls = <<>> /\ bt_last.out = <<>>)

\* C5 (as claimed): a write or read to an attribute handle of a Live service
\* invokes exactly that service's on_write / on_read once, with the event's
\* connection id, transfer id, offset and need-response flag.
C5_ResolvedDispatched ==
    \A s \in Services, c \in Chars :
        (last.ev.type \in {"Write", "Read"} /\ Live(s) /\ last.ev.h = AttrHandle(CharUuid(s, c)))
            => last.calls = <<Call(IF last.ev.type = "Write" THEN "on_write" ELSE "on_read",
                                   s, last.ev)>>

C7_CreatedOnce ==
    \A s \in Services : ncreated[s] <= 1 /\ (Live(s) => ncreated[s] = 1)

C9_IndependentRegistration ==
    bt_last.ev.type = "start" =>
        \A i \in 1..Len(bt_services) : i # bt_last.failAt => bt_services[i].registered

\* C10 (as claimed): a service one of whose confirmations failed has no entry
\* in the route table.
C10_FailedHasNoEntry ==
    \A s \in Services : Failed(s) => HandlerEntries(handlers, s) = {}

\* C11 (as claimed): every handle in the route table is bound to the one
\* service the driver gave it to, that service is among the server's instances
\* and is alive: none of its confirmations has failed.
C11_HandleOwnedByLive ==
    \A h \in DOMAIN handlers :
        /\ handlers[h] = HandleOwner(h)
        /\ handlers[h] \in Range(instances)
        /\ ~Failed(handlers[h])

\* C12 (as claimed): once a service has been removed, no attribute handle in
\* the route table resolves to it and no write or read reaches its callback.
C12_RemovedUnresolvable ==
    \A id \in sr_deleted :
        /\ \A h \in DOMAIN sr_handles_map : sr_handles_map[h] # id
        /\ \A i \in 1..Len(sr_last.calls) : sr_last.calls[i].sid # id

\* the deletion confirmation of service s, with success
Deleted(s) == [Ev("ServiceDeleted") EXCEPT !.h = SvcHandle(s)]

RouteHandle(services, id) ==
    LET i == FirstOf({k \in 1..Len(services) : services[k].id = id})
    IN IF i = 0 THEN 0 ELSE services[i].service_handle

\* C14 (as claimed): recording a handle for a service that is already mapped
\* to a different handle fails and leaves the mapping unchanged; recording the
\* handle it is mapped to, or a handle for a registered service that has none
\* yet, succeeds and maps the service to the handle.
C14_DuplicateServiceRejected ==
    (rr_last.op = "update_service_handle" /\ rr_last.h # 0) =>
        LET old == RouteHandle(rr_last.before, rr_last.id)
            registered == FirstOf({k \in 1..Len(rr_last.before) : rr_last.before[k].id = rr_last.id}) # 0
        IN /\ (old # 0 /\ old # rr_last.h)
                => (rr_last.res = "Err" /\ rr_services = rr_last.before)
           /\ (registered /\ old \in {0, rr_last.h})
                => (rr_last.res = "Ok" /\ RouteHandle(rr_services, rr_last.id) = rr_last.h)

\* C15 (as claimed): recording an attribute handle under a service handle
\* fails, leaving the table unchanged, exactly when no service is mapped to
\* that service handle; otherwise the attribute handle is in the table, under
\* that service handle.
C15_UnknownServiceRejected ==
    rr_last.op = "update_character_route" =>
        LET known == FirstOf({k \in 1..Len(rr_last.before) : rr_last.before[k].service_handle = rr_last.h}) # 0
        IN /\ ~known => (rr_last.res = "Err" /\ rr_char_handles = rr_last.chars_before)
           /\ known => /\ rr_last.res = "Ok"
                       /\ FirstOf({k \in 1..Len(rr_char_handles) :
                                       /\ rr_char_handles[k].service_handle = rr_last.h
                                       /\ rr_char_handles[k].attr_handle = rr_last.a}) # 0

\* C16 (as claimed): the identifiers of the registered services are pairwise
\* distinct, and registering an identifier that is already registered is
\* rejected and leaves the registered services unchanged.
C16_DistinctIdentifiers ==
    /\ \A i, j \in 1..Len(bt_services) : bt_services[i].id = bt_services[j].id => i = j
    /\ (/\ bt_last.ev.type = "add_service"
        /\ \E i \in 1..Len(bt_last.before) : bt_last.before[i].id = bt_last.ev.sid)
           => (bt_last.res # "Ok" /\ bt_services = bt_last.before)

\* C17 (as claimed): registering a service once start() has been called fails
\* with AlreadyStarted and leaves the registered services unchanged.
C17_RegisterAfterStartRejected ==
    (bt_last.ev.type = "add_service" /\ bt_started)
        => (bt_last.res = "AlreadyStarted" /\ bt_services = bt_last.before)

\* register-application requests: those waiting for their confirmation and
\* those confirmed
RegisterRequests ==
    Cardinality({i \in 1..Len(pending[0]) : pending[0][i].cmd = "register_app"})
    + Cardinality({e \in delivered : e.type = "ServiceRegistered" /\ e.app_id = APP_ID})

\* C18: start() issues no command but register_app, and that one only with
\* both the GAP and the GATTS callback subscribed; a start() that returns Ok
\* has issued it exactly once and returns with the request still unconfirmed,
\* no confirmation having been handled. There is never more than one
\* register-application request, and create_service, add_characteristic and
\* start_service are issued only once the registration has been confirmed.
C18_StartRegistersOnce ==
    /\ last.ev.type = "start" =>
        /\ \A i \in 1..Len(last.out) : last.out[i].cmd = "register_app"
        /\ Len(last.out) <= 1
        /\ last.out # <<>> => (gap_subscribed /\ gatts_subscribed)
        /\ last.res = "Ok" => /\ last.out = <<Cmd("register_app", 0, 0, 0)>>
                              /\ pending[0] = last.out
        /\ delivered = {}
        /\ last.calls = <<>>
    /\ RegisterRequests <= 1
    /\ \A c \in issued :
        c.cmd \in {"create_service", "add_characteristic", "start_service"} => RegOk

\* C18 witness: start() has returned Ok with its register_app request waiting
\* for the confirmation.
C18_Witness ==
    /\ last.ev.type = "start" /\ last.res = "Ok"
    /\ gap_subscribed /\ gatts_subscribed
    /\ Len(pending[0]) = 1 /\ pending[0][1].cmd = "register_app"

C20_BroadcastToLive ==
    bt_last.ev.type \in {"PeerConnected", "PeerDisconnected", "Mtu"} =>
        \A i \in 1..Len(bt_services) :
            CountCalls(bt_last.calls, CASE bt_last.ev.type = "PeerConnected" -> "on_connect"
                                        [] bt_last.ev.type = "PeerDisconnected" -> "on_disconnect"
                                        [] OTHER -> "notify_event", i)
                = IF bt_services[i].registered THEN 1 ELSE 0

\* the services the create-service requests among `out` name, in order
IsCreate(c) == c.cmd = "create_service"
Creates(out) == [i \in 1..Len(SelectSeq(out, IsCreate)) |-> SelectSeq(out, IsCreate)[i].sid]
\* the event just handled is a successful registration of this application
OwnRegistered ==
    last.ev.type = "ServiceRegistered" /\ last.ev.status = "Ok" /\ last.ev.app_id = APP_ID

\* C21: when the successful application-registered confirmation for the
\* server's own application id is handled and the ready handler returns its
\* services, exactly one create-service request has been issued for each of
\* them, in declaration order; create-service requests are issued by the ready
\* handler only, never before that confirmation and never while an event
\* carrying another application id or a non-success status is handled.
C21_CreateOnRegistered ==
    /\ (OwnRegistered /\ last.calls # <<>> /\ last.res = "Ok")
          => (Creates(last.out) = instances /\ Len(instances) = NumServices)
    /\ \A i \in 1..Len(Creates(last.out)) : Creates(last.out)[i] = i
    /\ Creates(last.out) # <<>> => (OwnRegistered /\ last.calls # <<>>)
    /\ (\E c \in issued : IsCreate(c)) => (RegOk /\ nready >= 1)

\* C21 witness: the own confirmation is handled with success and every
\* declared service has its request.
C21_Witness ==
    /\ OwnRegistered /\ last.res = "Ok"
    /\ Creates(last.out) = [i \in 1..NumServices |-> i]
    /\ instances = [i \in 1..NumServices |-> i]

\* C22: the ready handler is invoked at most once. Its invocation takes it
\* out of the server whether it returns its services or an error, and a
\* matching application-registered event that finds no handler issues no
\* driver command, changes nothing (the instance list included) and is
\* answered Ok.
C22_ReadyHandlerOnce ==
    /\ nready <= 1
    /\ nready = 1 => ready_handler = "None"
    /\ CountCalls(last.calls, "ready_handler", 0) <= 1
    /\ (OwnRegistered /\ last.calls = <<>>)
          => (last.out = <<>> /\ ~last.changed /\ last.res = "Ok")

\* C22 witness: the one invocation returned an error, leaving the instance
\* list empty, and a later confirmation for the own application id has been
\* handled without it.
C22_Witness ==
    /\ nready = 1 /\ instances = <<>> /\ dups >= 1
    /\ OwnRegistered /\ last.calls = <<>> /\ last.out = <<>>

\* C23: an add-characteristic request carries the service handle that a
\* successful service-created confirmation delivered for the same service,
\* and is issued while that confirmation is handled, never before it.
C23_CharOnCreatedHandle ==
    /\ \A c \in issued : c.cmd = "add_characteristic" =>
          \E e \in delivered : /\ e.type = "ServiceCreated" /\ e.status = "Ok"
                                /\ e.sid = c.sid /\ e.h = c.h
    /\ \A i \in 1..Len(last.out) : last.out[i].cmd = "add_characteristic" =>
          /\ last.ev.type = "ServiceCreated" /\ last.ev.status = "Ok"
          /\ last.ev.sid = last.out[i].sid /\ last.ev.h = last.out[i].h

\* C23 witness: both services have their add-characteristic requests issued,
\* each on its own handle.
C23_Witness ==
    \A s \in Services : \A k \in Chars :
        Cmd("add_characteristic", s, SvcHandle(s), CharUuid(s, k)) \in issued

\* the structural requests of service s that await their confirmation
Structural(s) == {i \in 1..Len(pending[s]) :
                    pending[s][i].cmd \in {"add_characteristic", "start_service"}}

\* C24 (as claimed): a service has at most one add-characteristic or
\* start-service request outstanding at a time.
C24_OneOutstanding ==
    \A s \in Services : Cardinality(Structural(s)) <= 1

\* C25 (as claimed): a start-service request is issued only while the
\* successful confirmation of the last characteristic of the service is
\* handled, every characteristic of the service being confirmed by then.
C25_StartAfterLastChar ==
    \A i \in 1..Len(last.out) : last.out[i].cmd = "start_service" =>
        /\ last.ev.type = "CharacteristicAdded" /\ last.ev.status = "Ok"
        /\ \A k \in Chars : CharOk(last.out[i].sid, k)

\* C27 (as claimed): once the successful deletion confirmation for the handle
\* of a Live service is handled, the service has no entry left in the route
\* table (neither its service handle nor its attribute handles) and the entries
\* of the other services are the ones they had.
C27_DeletedRemovesRoutes ==
    \A s \in Services : last.ev = Deleted(s) =>
        /\ HandlerEntries(handlers, s) = {}
        /\ SvcHandle(s) \notin DOMAIN attr_handler
        /\ \A t \in Services \ {s} : Live(t) => HandlerEntries(handlers, t) = {SvcHandle(t)}

\* C28 (as claimed): the handling of an event never panics: it returns Ok or
\* an error value, and the callback stays in place for the next event.
C28_NeverPanics ==
    last.res \in {"Ok", "Err"} /\ alive

\* C29 (as claimed): the ready handler and on_created are invoked while the
\* server holds none of its mutexes.
C29_CallbacksOutsideLocks ==
    \A i \in 1..Len(last.calls) :
        last.calls[i].cb \in {"ready_handler", "on_created"} => last.calls[i].held = {}

\* C30 (as claimed): a disconnect of a connection that did not pause
\* advertising issues no start-advertising command. The server records no
\* subscription and never pauses advertising, so no connection ever did.
C30_ResumeOnlyIfPaused ==
    (last.ev.type = "PeerDisconnected" /\ \A c \in issued : c.cmd # "stop_advertising")
        => \A i \in 1..Len(last.out) : last.out[i].cmd # "start_advertising"

\* C31 (as claimed): for a service registered with its characteristics and
\* given its service handle, update_character_route succeeds for each declared
\* characteristic and find_attr_handler then returns the service's handler for
\* the recorded pair; for a pair that was not recorded it returns None.
C31_RouteRoundTrip ==
    /\ \A s \in Services, c \in Chars :
          RouteHandle(rr_services, s) = SvcHandle(s) =>
            LET u == CharUuid(s, c)
                r == update_character_route(rr_char_handles, u, SvcHandle(s), AttrHandle(u))
            IN /\ r.res = "Ok"
               /\ find_attr_handler(rr_services, r.char_handles, SvcHandle(s), AttrHandle(u)) = s
    /\ \A h \in RrHandles \ {0}, a \in Handles :
          (\A k \in 1..Len(rr_char_handles) :
               ~(rr_char_handles[k].service_handle = h /\ rr_char_handles[k].attr_handle = a))
            => find_attr_handler(rr_services, rr_char_handles, h, a) = 0

\* C32: an application-registered event with a non-success status or with
\* another application id invokes no callback, issues no command and changes
\* nothing (the ready handler, the instance list and the handler map are as
\* they were); it is answered with an error for the status and Ok otherwise.
\* As long as the handler is in place, a successful event for the own
\* application id runs it.
C32_ForeignRegistrationIgnored ==
    /\ (last.ev.type = "ServiceRegistered" /\ ~OwnRegistered)
          => /\ last.calls = <<>> /\ last.out = <<>> /\ ~last.changed
             /\ last.res = check_gatt_status(last.ev.status)
    /\ ready_handler = "Some" =>
          /\ nready = 0
          /\ handle_gatts_event(State, [Ev("ServiceRegistered") EXCEPT !.app_id = APP_ID], 0).calls
               = <<CallHolding("ready_handler", 0, Ev("ServiceRegistered"), {"ready_handler"})>>

\* C32 witness: the first confirmation for the own application id carried an
\* error, and the ready handler has run on a later, successful one.
C32_Witness ==
    /\ [Ev("ServiceRegistered") EXCEPT !.status = "Err", !.app_id = APP_ID] \in delivered
    /\ OwnRegistered /\ last.calls # <<>> /\ last.res = "Ok"
    /\ nready = 1 /\ Len(instances) = NumServices

\* C33: every entry of the handler map binds a handle to a service of the
\* instance list for which a successful service-created confirmation carrying
\* that handle was delivered and on_created was invoked; a service-created
\* event whose on_created returns an error (or that is answered with an error
\* at all) inserts nothing, and one whose on_created returns Ok binds the
\* event's handle to the event's service.
C33_EntriesFromCreated ==
    /\ \A h \in DOMAIN handlers :
          /\ \E e \in delivered : /\ e.type = "ServiceCreated" /\ e.status = "Ok"
                                   /\ e.h = h /\ e.sid = handlers[h]
          /\ handlers[h] \in Range(instances)
          /\ ncreated[handlers[h]] >= 1
    /\ last.ev.type = "ServiceCreated" =>
          /\ last.res # "Ok" => ~last.changed
          /\ (last.res = "Ok" /\ last.calls # <<>>)
                => (last.ev.h \in DOMAIN handlers /\ handlers[last.ev.h] = last.ev.sid)

\* C33 witness: on_created of service 1 returned an error and left no entry,
\* while service 2 is bound to its handle.
C33_Witness ==
    /\ last.ev.type = "ServiceCreated" /\ last.ev.status = "Ok" /\ last.ev.sid = 1
    /\ last.calls # <<>> /\ last.res = "Err"
    /\ DOMAIN handlers = {SvcHandle(2)} /\ handlers[SvcHandle(2)] = 2

\* C34: a successful service-created confirmation whose service id no
\* instance of the list has invokes no callback, issues no command, changes
\* nothing and is answered Ok.
C34_UnmatchedCreatedIgnored ==
    (/\ last.ev.type = "ServiceCreated" /\ last.ev.status = "Ok"
     /\ last.ev.sid \notin Range(instances))
        => (last.calls = <<>> /\ last.out = <<>> /\ ~last.changed /\ last.res = "Ok")

\* C34 witness: the ready handler failed after its first create-service
\* request was accepted, so the instance list is empty when the creation of
\* service 1 is confirmed.
C34_Witness ==
    /\ last.ev.type = "ServiceCreated" /\ last.ev.status = "Ok" /\ last.ev.sid = 1
    /\ instances = <<>> /\ nready = 1
    /\ last.res = "Ok" /\ handlers = EmptyMap

\* C35: bt::BleServer never holds more than ServiceLimit services; add_service
\* on a server that holds ServiceLimit services returns ServiceLimit and leaves
\* the list as it was, and on a server that holds fewer it returns Ok and has
\* appended the new service at the end of the list.
C35_ServiceLimit ==
    /\ Len(bt_services) <= ServiceLimit
    /\ bt_last.ev.type = "add_service" =>
          IF Len(bt_last.before) >= ServiceLimit
          THEN bt_last.res = "ServiceLimit" /\ bt_services = bt_last.before
          ELSE /\ bt_last.res = "Ok"
               /\ bt_services = Append(bt_last.before, NewService(bt_last.ev.sid))

\* C35 witness: a sixth add_service has been refused.
C35_Witness ==
    /\ bt_last.ev.type = "add_service" /\ bt_last.res = "ServiceLimit"
    /\ Len(bt_services) = ServiceLimit /\ ~bt_started

\* the advertising commands of bt::BleServer::start
AdvCmds == {"set_device_name", "set_adv_conf", "start_advertising"}
\* the handles of the start_service commands among `out`, in order: one per
\* service whose on_register ran to its end
StartedHandles(out) ==
    [i \in 1..Len(SelectSeq(out, LAMBDA c : c.cmd = "start_service")) |->
        SelectSeq(out, LAMBDA c : c.cmd = "start_service")[i].h]

\* C36: in start(), the services are registered in the order they were added;
\* an advertising command is issued only after every service's on_register has
\* returned Ok and after all their commands; when the on_register of a service
\* fails, start returns the error, the services before it are registered, that
\* one and the later ones are not, the later ones are untouched and no
\* advertising command is issued.
C36_AdvertiseAfterRegistration ==
    bt_last.ev.type = "start" =>
        LET out == bt_last.out
            n == Len(bt_last.before)
            done == StartedHandles(out)
        IN /\ \A i \in 1..Len(done) : done[i] = BtSvcHandle(i)
           /\ \A i \in 1..n : bt_services[i].registered = (i <= Len(done))
           /\ \A i, j \in 1..Len(out) :
                 (out[i].cmd \in AdvCmds /\ out[j].cmd \notin AdvCmds) => j < i
           /\ (\E i \in 1..Len(out) : out[i].cmd \in AdvCmds) => Len(done) = n
           /\ bt_last.res = "Ok" => (Len(done) = n /\ out[Len(out)].cmd = "start_advertising")
           /\ bt_last.failAt \in 1..n =>
                 /\ bt_last.res = "Err"
                 /\ Len(done) = bt_last.failAt - 1
                 /\ \A i \in 1..Len(out) : out[i].cmd \notin AdvCmds
                 /\ \A j \in (bt_last.failAt + 1)..n : bt_services[j] = bt_last.before[j]

\* C36 witness: of three services the second one's on_register failed at its
\* second characteristic; the first is registered, the third untouched.
C36_Witness ==
    /\ bt_last.ev.type = "start" /\ bt_last.res = "Err" /\ bt_last.failAt = 2
    /\ Len(bt_services) = 3
    /\ bt_services[1].registered /\ ~bt_services[2].registered
    /\ bt_services[2].recv_handle # 0 /\ bt_services[2].ind_handle = 0
    /\ bt_services[3] = NewService(bt_services[3].id)

\* C37: a write, connect or disconnect event is handed to the callback of
\* every service of the list once, in list order, whether or not one of the
\* callbacks returns an error; the error is logged and on_gatts_event returns
\* Ok for every event.
C37_ErrorsDoNotStopBroadcast ==
    bt_last.ev.type \in {"Write", "Read", "PeerConnected", "PeerDisconnected", "Mtu"} =>
        /\ bt_last.res = "Ok"
        /\ bt_last.ev.type \in {"Write", "PeerConnected", "PeerDisconnected"} =>
              /\ Len(bt_last.calls) = Len(bt_services)
              /\ \A i \in 1..Len(bt_last.calls) :
                    /\ bt_last.calls[i].sid = i
                    /\ bt_last.calls[i].cb = CASE bt_last.ev.type = "Write" -> "on_write"
                                               [] bt_last.ev.type = "PeerConnected" -> "on_connect"
                                               [] OTHER -> "on_disconnect"
              /\ bt_last.logged = IF bt_last.err = 0 THEN <<>> ELSE <<bt_last.err>>

\* C37 witness: of three services the first one's on_write returned an error
\* and the two after it were still called.
C37_Witness ==
    /\ bt_last.ev.type = "Write" /\ bt_last.err = 1 /\ bt_last.logged = <<1>>
    /\ Len(bt_services) = 3 /\ Len(bt_last.calls) = 3
    /\ bt_last.calls[3].sid = 3 /\ bt_last.res = "Ok"

====
